---- MODULE Spec2Model ----
(***************************************************************************)
(* Model of the zkpdf-template credential pipeline:                        *)
(*   lib/src/lib.rs      verify_gst_certificate, verify_pan_certificate    *)
(*   lib/src/utils.rs    gst_generate_commitment, pan_generate_commitment  *)
(*   program/src/main.rs the zkVM program (GST first, then PAN, else panic)*)
(*   script/src/bin/evm.rs create_proof_fixture (consumer of the output)   *)
(*   script/src/bin/main.rs the driver script (--execute / --prove)        *)
(* A text is a sequence of one-character strings; a byte is a number.      *)
(***************************************************************************)
EXTENDS Integers, Sequences, FiniteSets, TLC

VARIABLES
    stdin,          \* what the prover wrote: the PDF, given by what verify_and_extract yields on it
    pc,             \* position of the zkVM program's main
    pdf_bytes,      \* main's local after sp1_zkvm::io::read
    gst_res,        \* result of verify_gst_certificate once attempted
    pan_res,        \* result of verify_pan_certificate once attempted
    attempts,       \* the extractions attempted so far, in order
    public_values,  \* the slices committed with sp1_zkvm::io::commit_slice, in order
    fixture,        \* what create_proof_fixture saved from the public values
    cert_a,         \* first certificate handed to the commitment builder
    cert_b,         \* second certificate handed to the commitment builder
    commitments,    \* the commitments built for cert_a and cert_b
    argv,           \* the command line the driver script was started with
    args,           \* the driver's Args once parsed
    script_pc,      \* position of the driver script's main
    script_stdin,   \* the driver's SP1Stdin once the PDF is written to it
    effects,        \* what the driver's client has done so far, in order
    exit_code       \* the driver's exit status once it has ended

vars == <<stdin, pc, pdf_bytes, gst_res, pan_res, attempts, public_values,
          fixture, cert_a, cert_b, commitments,
          argv, args, script_pc, script_stdin, effects, exit_code>>

script_vars == <<argv, args, script_pc, script_stdin, effects, exit_code>>

pipeline_vars == <<stdin, pc, pdf_bytes, gst_res, pan_res, attempts,
                   public_values, fixture>>

commit_vars == <<cert_a, cert_b, commitments>>

\* Option<T>
None == [some |-> FALSE]

Some(x) == [some |-> TRUE, val |-> x]

-----------------------------------------------------------------------------
(* Bounds of the model. *)

\* Tokens (text fragments and page ends) a document is made of.
MaxTokens == 4

\* Length of the byte strings and names handed to the commitment builder.
MaxBytes == 2

\* Largest value given to the driver's --kind on the command line
\* (the driver accepts 0 to 5).
MaxKindArg == 6

-----------------------------------------------------------------------------
(* Characters. *)

UpperSeq == <<"A","B","C","D","E","F","G","H","I","J","K","L","M",
              "N","O","P","Q","R","S","T","U","V","W","X","Y","Z">>

LowerSeq == <<"a","b","c","d","e","f","g","h","i","j","k","l","m",
              "n","o","p","q","r","s","t","u","v","w","x","y","z">>

DigitSeq == <<"0","1","2","3","4","5","6","7","8","9">>

Range(s) == {s[i] : i \in 1..Len(s)}

\* [A-Z]
Upper == Range(UpperSeq)

\* [a-z]
Lower == Range(LowerSeq)

\* [0-9]
Digit == Range(DigitSeq)

\* [1-9A-Z]
EntityChar == (Digit \ {"0"}) \cup Upper

\* [0-9A-Z]
AlnumChar == Digit \cup Upper

\* \s of the regex crate and the White_Space that str::trim removes (its ASCII part)
Whitespace == {" ", "\t", "\n", "\r", "\f"}

\* [A-Za-z\s&.,]
NameChar == Upper \cup Lower \cup Whitespace \cup {"&", ".", ","}

IndexIn(s, c) == CHOOSE i \in 1..Len(s) : s[i] = c

\* str::as_bytes on one character (UTF-8 of an ASCII character is its code)
Ord(c) ==
    IF c \in Upper THEN 64 + IndexIn(UpperSeq, c)
    ELSE IF c \in Lower THEN 96 + IndexIn(LowerSeq, c)
    ELSE IF c \in Digit THEN 47 + IndexIn(DigitSeq, c)
    ELSE CASE c = " "  -> 32
           [] c = "\t" -> 9
           [] c = "\n" -> 10
           [] c = "\r" -> 13
           [] c = "\f" -> 12
           [] c = "&"  -> 38
           [] c = "."  -> 46
           [] c = ","  -> 44

\* str::as_bytes
as_bytes(s) == [i \in 1..Len(s) |-> Ord(s[i])]

\* the bytes that are the UTF-8 of a character of the model
IsCharByte(b) ==
    \/ b \in 65..90
    \/ b \in 97..122
    \/ b \in 48..57
    \/ b \in {32, 9, 10, 13, 12, 38, 46, 44}

\* the character a byte decodes to
Chr(b) ==
    IF b \in 65..90 THEN UpperSeq[b - 64]
    ELSE IF b \in 97..122 THEN LowerSeq[b - 96]
    ELSE IF b \in 48..57 THEN DigitSeq[b - 47]
    ELSE CASE b = 32 -> " "
           [] b = 9  -> "\t"
           [] b = 10 -> "\n"
           [] b = 13 -> "\r"
           [] b = 12 -> "\f"
           [] b = 38 -> "&"
           [] b = 46 -> "."
           [] b = 44 -> ","

-----------------------------------------------------------------------------
(* Regular expressions of lib.rs, matched as the regex crate matches them: *)
(* the leftmost start, and at that start the first match in priority order *)
(* (a greedy repetition tries the longest first, a lazy one the shortest). *)

\* a literal at position i of text t
LitAt(t, i, lit) ==
    /\ i >= 1
    /\ i + Len(lit) - 1 <= Len(t)
    /\ \A k \in 1..Len(lit) : t[i + k - 1] = lit[k]

\* a sequence of character classes at position i of text t
ClassesAt(t, i, classes) ==
    /\ i + Len(classes) - 1 <= Len(t)
    /\ \A k \in 1..Len(classes) : t[i + k - 1] \in classes[k]

SetMin(S) == CHOOSE x \in S : \A y \in S : x <= y

SetMax(S) == CHOOSE x \in S : \A y \in S : x >= y

\* Regex::captures(..).get(1) for a pattern that is one group of classes:
\* the leftmost match, or None
CapturesClasses(t, classes) ==
    LET starts == {i \in 1..Len(t) : ClassesAt(t, i, classes)}
    IN  IF starts = {} THEN None
        ELSE Some(SubSeq(t, SetMin(starts), SetMin(starts) + Len(classes) - 1))

\* Mutant: the 13th character may be any alphanumeric, '0' included.
gst_pattern_Any13 ==
    <<Digit, Digit, Upper, Upper, Upper, Upper, Upper, Digit, Digit, Digit,
      Digit, Upper, AlnumChar, {"Z"}, AlnumChar>>

\* ([0-9]{2}[A-Z]{5}[0-9]{4}[A-Z]{1}[1-9A-Z]{1}[Z]{1}[0-9A-Z]{1})
gst_pattern ==
    <<Digit, Digit, Upper, Upper, Upper, Upper, Upper, Digit, Digit, Digit,
      Digit, Upper, EntityChar, {"Z"}, AlnumChar>>

\* Mutant: the identifier starts with six letters.
pan_pattern_SixLetters ==
    <<Upper, Upper, Upper, Upper, Upper, Upper, Digit, Digit, Digit, Digit, Upper>>

\* ([A-Z]{5}[0-9]{4}[A-Z]{1})
pan_pattern ==
    <<Upper, Upper, Upper, Upper, Upper, Digit, Digit, Digit, Digit, Upper>>

\* (?:\n|stop1|stop2|$) at position q: `$` is the end of the text only
TerminatorAt(t, q, stops) ==
    \/ q = Len(t) + 1
    \/ q <= Len(t) /\ t[q] = "\n"
    \/ \E k \in 1..Len(stops) : LitAt(t, q, stops[k])

\* the lengths n >= 1 of a lazy capture [A-Za-z\s&.,]+? at s that a terminator follows
CaptureLens(t, s, stops) ==
    {n \in 1..(Len(t) - s + 1) :
        /\ \A k \in s..(s + n - 1) : t[k] \in NameChar
        /\ TerminatorAt(t, s + n, stops)}

\* the number of whitespace characters from position p on (the greedy \s*)
SpaceRun(t, p) ==
    LET ends == {q \in p..(Len(t) + 1) :
                    /\ \A k \in p..(q - 1) : t[k] \in Whitespace
                    /\ (q = Len(t) + 1 \/ t[q] \notin Whitespace)}
    IN  SetMin(ends) - p

\* label\s*([A-Za-z\s&.,]+?)(?:\n|stop1|stop2|$) tried at start i: the set of
\* \s* lengths (0..SpaceRun) after which the lazy capture finds a terminator
NameSkips(t, i, label, stops) ==
    IF ~LitAt(t, i, label) THEN {}
    ELSE LET p == i + Len(label)
         IN  {j \in 0..SpaceRun(t, p) : CaptureLens(t, p + j, stops) # {}}

\* Regex::captures(..).get(1) of the legal-name pattern: leftmost start,
\* longest \s*, shortest capture; None when the pattern matches nowhere
CapturesName(t, label, stops) ==
    LET starts == {i \in 1..Len(t) : NameSkips(t, i, label, stops) # {}}
    IN  IF starts = {} THEN None
        ELSE LET i == SetMin(starts)
                 s == i + Len(label) + SetMax(NameSkips(t, i, label, stops))
                 n == SetMin(CaptureLens(t, s, stops))
             IN  Some(SubSeq(t, s, s + n - 1))

\* str::trim
trim(s) ==
    LET keep == {i \in 1..Len(s) : s[i] \notin Whitespace}
    IN  IF keep = {} THEN <<>> ELSE SubSeq(s, SetMin(keep), SetMax(keep))

-----------------------------------------------------------------------------
(* The inputs: a verified PDF is given by what the external verifier      *)
(* (zkpdf_lib::verify_and_extract) yields on it.                           *)

\* The text fragments documents of the model are made of.
TokenText ==
    <<
      <<"2","2","A","A","A","A","A","0","0","0","0","A","1","Z","5">>,   \* 1: a GSTIN
      <<"3","3","C","C","C","C","C","2","2","2","2","C","0","Z","D">>,   \* 2: 15 characters of the GSTIN form but for '0' as the 13th
      <<"0","7">>,   \* 3: two digits: no name holds them; the head of a GSTIN
      <<"B","B","B","B","B","1","1","1","1","B","1","Z","2">>,   \* 4: the tail of a GSTIN, holding a PAN
      <<"L","e","g","a","l"," ","N","a","m","e">>,   \* 5: the GST label
      <<"N","a","m","e">>,   \* 6: the PAN label
      <<"\n">>,   \* 7: a line break
      <<"T","r","a","d","e"," ","N","a","m","e">>,   \* 8: a GST stop keyword
      <<"F","a","t","h","e","r">>,   \* 9: a PAN stop keyword
      <<"K"," ","&","b",".">>    \* 10: name characters
    >>

\* Token 0 ends a page; full_text_of puts one space between pages.
TokenIds == 0..Len(TokenText)

TokenSeqs == UNION {[1..k -> TokenIds] : k \in 0..MaxTokens}

RECURSIVE BuildPages(_, _, _, _)
BuildPages(toks, i, cur, acc) ==
    IF i > Len(toks) THEN (IF cur = <<>> THEN acc ELSE Append(acc, cur))
    ELSE IF toks[i] = 0 THEN BuildPages(toks, i + 1, <<>>, Append(acc, cur))
    ELSE BuildPages(toks, i + 1, cur \o TokenText[toks[i]], acc)

\* The ordered page texts a token sequence stands for.
PagesOf(toks) == BuildPages(toks, 1, <<>>, <<>>)

\* PdfSignatureResult values: is_valid, message_digest, public_key.
Signatures ==
    { [is_valid |-> TRUE,  message_digest |-> <<17, 65>>, public_key |-> <<48>>],
      [is_valid |-> FALSE, message_digest |-> <<17>>,     public_key |-> <<65, 48>>] }

\* A PDF the verifier accepts, and one it rejects.
VerifiedPdf(pages, sig) == [verified |-> TRUE, pages |-> pages, signature |-> sig]

RejectedPdf == [verified |-> FALSE]

\* Result<T, E>
Ok(x) == [ok |-> TRUE, val |-> x]

Err(e) == [ok |-> FALSE, err |-> e]

\* zkpdf_lib::verify_and_extract, an external collaborator: a function of the bytes
verify_and_extract(bytes) ==
    IF bytes.verified
    THEN Ok([pages |-> bytes.pages, signature |-> bytes.signature])
    ELSE Err("verification failed")

-----------------------------------------------------------------------------
(* lib/src/lib.rs *)

RECURSIVE join(_, _)
\* [String]::join(sep)
join(pages, sep) ==
    IF Len(pages) = 0 THEN <<>>
    ELSE IF Len(pages) = 1 THEN pages[1]
    ELSE pages[1] \o sep \o join(Tail(pages), sep)

\* let full_text = verified_content.pages.join(" ")
full_text_of(pages) == join(pages, <<" ">>)

LegalNameLabel == <<"L","e","g","a","l"," ","N","a","m","e">>

NameLabel == <<"N","a","m","e">>

\* Trade Name | Additional
GstStops == << <<"T","r","a","d","e"," ","N","a","m","e">>,
              <<"A","d","d","i","t","i","o","n","a","l">> >>

\* Father | DOB
PanStops == << <<"F","a","t","h","e","r">>, <<"D","O","B">> >>

\* gst_pattern.captures(&full_text).and_then(|cap| cap.get(1))
gst_number_of(full_text) == CapturesClasses(full_text, gst_pattern)

\* pan_pattern.captures(&full_text).and_then(|cap| cap.get(1))
pan_number_of(full_text) == CapturesClasses(full_text, pan_pattern)

\* legal_name_pattern.captures(&full_text)...map(|m| m.as_str().trim().to_string())
gst_legal_name_of(full_text) ==
    LET cap == CapturesName(full_text, LegalNameLabel, GstStops)
    IN  IF cap.some THEN Some(trim(cap.val)) ELSE None

pan_legal_name_of(full_text) ==
    LET cap == CapturesName(full_text, NameLabel, PanStops)
    IN  IF cap.some THEN Some(trim(cap.val)) ELSE None

verify_gst_certificate(bytes) ==
    LET verified_content == verify_and_extract(bytes)
    IN  IF ~verified_content.ok THEN Err("PdfVerificationFailed")
        ELSE LET full_text == full_text_of(verified_content.val.pages)
                 gst_number == gst_number_of(full_text)
             IN  IF ~gst_number.some THEN Err("GSTNumberNotFound")
                 ELSE LET legal_name == gst_legal_name_of(full_text)
                      IN  IF ~legal_name.some THEN Err("LegalNameNotFound")
                          ELSE Ok([gst_number |-> gst_number.val,
                                   legal_name |-> legal_name.val,
                                   signature |-> verified_content.val.signature])

verify_pan_certificate(bytes) ==
    LET verified_content == verify_and_extract(bytes)
    IN  IF ~verified_content.ok THEN Err("PdfVerificationFailed")
        ELSE LET full_text == full_text_of(verified_content.val.pages)
                 pan_number == pan_number_of(full_text)
             IN  IF ~pan_number.some THEN Err("PANNumberNotFound")
                 ELSE LET legal_name == pan_legal_name_of(full_text)
                      IN  IF ~legal_name.some THEN Err("LegalNameNotFound")
                          ELSE Ok([pan_number |-> pan_number.val,
                                   legal_name |-> legal_name.val,
                                   signature |-> verified_content.val.signature])

-----------------------------------------------------------------------------
(* lib/src/utils.rs *)

\* alloy_primitives::keccak256, taken as injective: a digest is given by its preimage
keccak256(bytes) == [keccak256 |-> bytes]

\* Mutant: the legal name is hashed before the number.
pan_generate_commitment_NameFirst(pan) ==
    keccak256(pan.signature.message_digest
              \o as_bytes(pan.legal_name)
              \o as_bytes(pan.pan_number)
              \o pan.signature.public_key)

\* Mutant: the public key is left out of the hashed input.
gst_generate_commitment_NoKey(gst) ==
    keccak256(gst.signature.message_digest
              \o as_bytes(gst.gst_number)
              \o as_bytes(gst.legal_name))

gst_generate_commitment(gst) ==
    LET combined_input == gst.signature.message_digest
                          \o as_bytes(gst.gst_number)
                          \o as_bytes(gst.legal_name)
                          \o gst.signature.public_key
    IN  keccak256(combined_input)

pan_generate_commitment(pan) ==
    LET combined_input == pan.signature.message_digest
                          \o as_bytes(pan.pan_number)
                          \o as_bytes(pan.legal_name)
                          \o pan.signature.public_key
    IN  keccak256(combined_input)

-----------------------------------------------------------------------------
(* The public values: sol! structs of lib.rs and their ABI encoding.       *)
(* GSTValuesStruct and PANValuesStruct are both                            *)
(*   (string, string, bool, bytes32, bytes32);                             *)
(* the encoding holds the field values by position: no struct name, no     *)
(* field name. A word of the encoding is [uint |-> n] or [b32 |-> digest]; *)
(* [data |-> bytes] stands for the words holding bytes, zero-padded.       *)

PadLen(n) == ((n + 31) \div 32) * 32

\* SolType::abi_encode of a (string, string, bool, bytes32, bytes32) struct
abi_encode(s1, s2, flag, w1, w2) ==
    << [uint |-> 32],
       [uint |-> 160],
       [uint |-> 160 + 32 + PadLen(Len(s1))],
       [uint |-> IF flag THEN 1 ELSE 0],
       [b32 |-> w1],
       [b32 |-> w2],
       [uint |-> Len(s1)],
       [data |-> as_bytes(s1)],
       [uint |-> Len(s2)],
       [data |-> as_bytes(s2)] >>

IsUint(w) == DOMAIN w = {"uint"}

\* String::from_utf8 on the bytes of a string field
from_utf8(bytes) ==
    IF \A i \in 1..Len(bytes) : IsCharByte(bytes[i])
    THEN Ok([i \in 1..Len(bytes) |-> Chr(bytes[i])])
    ELSE Err("utf8")

\* SolType::abi_decode of a (string, string, bool, bytes32, bytes32) struct:
\* the five field values by position, or an error
abi_decode(words) ==
    IF Len(words) # 10 THEN Err("abi")
    ELSE IF ~(/\ \A k \in {1, 2, 3, 4, 7, 9} : IsUint(words[k])
              /\ \A k \in {5, 6} : DOMAIN words[k] = {"b32"}
              /\ \A k \in {8, 10} : DOMAIN words[k] = {"data"})
    THEN Err("abi")
    ELSE IF ~(/\ words[1].uint = 32
              /\ words[2].uint = 160
              /\ words[7].uint = Len(words[8].data)
              /\ words[3].uint = 160 + 32 + PadLen(words[7].uint)
              /\ words[9].uint = Len(words[10].data)
              /\ words[4].uint \in {0, 1}
              /\ from_utf8(words[8].data).ok
              /\ from_utf8(words[10].data).ok)
    THEN Err("abi")
    ELSE Ok(<< from_utf8(words[8].data).val,
               from_utf8(words[10].data).val,
               words[4].uint = 1,
               words[5].b32,
               words[6].b32 >>)

GSTValuesStruct_abi_encode(v) ==
    abi_encode(v.gst_number, v.legal_name, v.signature_valid,
               v.document_commitment, v.public_key_hash)

PANValuesStruct_abi_encode(v) ==
    abi_encode(v.pan_number, v.legal_name, v.signature_valid,
               v.document_commitment, v.public_key_hash)

GSTValuesStruct_abi_decode(bytes) ==
    LET d == abi_decode(bytes)
    IN  IF ~d.ok THEN d
        ELSE Ok([gst_number |-> d.val[1], legal_name |-> d.val[2],
                 signature_valid |-> d.val[3], document_commitment |-> d.val[4],
                 public_key_hash |-> d.val[5]])

PANValuesStruct_abi_decode(bytes) ==
    LET d == abi_decode(bytes)
    IN  IF ~d.ok THEN d
        ELSE Ok([pan_number |-> d.val[1], legal_name |-> d.val[2],
                 signature_valid |-> d.val[3], document_commitment |-> d.val[4],
                 public_key_hash |-> d.val[5]])

-----------------------------------------------------------------------------
(* program/src/main.rs *)

\* Mutant: the record claims a valid signature whatever the verifier said.
GSTValues_AlwaysValid(gst_cert) ==
    [gst_number |-> gst_cert.gst_number,
     legal_name |-> gst_cert.legal_name,
     signature_valid |-> TRUE,
     document_commitment |-> gst_generate_commitment(gst_cert),
     public_key_hash |-> keccak256(gst_cert.signature.public_key)]

\* the GSTValuesStruct main builds from a GSTCertificate
GSTValues(gst_cert) ==
    [gst_number |-> gst_cert.gst_number,
     legal_name |-> gst_cert.legal_name,
     signature_valid |-> gst_cert.signature.is_valid,
     document_commitment |-> gst_generate_commitment(gst_cert),
     public_key_hash |-> keccak256(gst_cert.signature.public_key)]

\* the PANValuesStruct main builds from a PANCertificate
PANValues(pan_cert) ==
    [pan_number |-> pan_cert.pan_number,
     legal_name |-> pan_cert.legal_name,
     signature_valid |-> pan_cert.signature.is_valid,
     document_commitment |-> pan_generate_commitment(pan_cert),
     public_key_hash |-> keccak256(pan_cert.signature.public_key)]

\* Mutant: after the read, main goes to the PAN extraction first.
ReadInput_PanFirst ==
    /\ pc = "read"
    /\ pdf_bytes' = Some(stdin)
    /\ pc' = "try_pan"
    /\ UNCHANGED <<stdin, gst_res, pan_res, attempts, public_values, fixture>>
    /\ UNCHANGED commit_vars
    /\ UNCHANGED script_vars

\* let pdf_bytes = sp1_zkvm::io::read::<Vec<u8>>();
ReadInput ==
    /\ pc = "read"
    /\ pdf_bytes' = Some(stdin)
    /\ pc' = "try_gst"
    /\ UNCHANGED <<stdin, gst_res, pan_res, attempts, public_values, fixture>>
    /\ UNCHANGED commit_vars
    /\ UNCHANGED script_vars

\* Mutant: the GST branch commits its record and falls through (no return).
TryGst_NoReturn ==
    /\ pc = "try_gst"
    /\ LET r == verify_gst_certificate(pdf_bytes.val)
       IN  /\ gst_res' = Some(r)
           /\ attempts' = Append(attempts, "GST")
           /\ public_values' =
                 IF r.ok
                 THEN Append(public_values, GSTValuesStruct_abi_encode(GSTValues(r.val)))
                 ELSE public_values
           /\ pc' = "try_pan"
    /\ UNCHANGED <<stdin, pdf_bytes, pan_res, fixture>>
    /\ UNCHANGED commit_vars
    /\ UNCHANGED script_vars

\* if let Ok(gst_cert) = verify_gst_certificate(pdf_bytes.clone()) { ...; return; }
TryGst ==
    /\ pc = "try_gst"
    /\ LET r == verify_gst_certificate(pdf_bytes.val)
       IN  /\ gst_res' = Some(r)
           /\ attempts' = Append(attempts, "GST")
           /\ IF r.ok
              THEN /\ public_values' =
                        Append(public_values, GSTValuesStruct_abi_encode(GSTValues(r.val)))
                   /\ pc' = "returned"
              ELSE /\ public_values' = public_values
                   /\ pc' = "try_pan"
    /\ UNCHANGED <<stdin, pdf_bytes, pan_res, fixture>>
    /\ UNCHANGED commit_vars
    /\ UNCHANGED script_vars

\* Mutant: main ends without the final panic.
TryPan_NoPanic ==
    /\ pc = "try_pan"
    /\ LET r == verify_pan_certificate(pdf_bytes.val)
       IN  /\ pan_res' = Some(r)
           /\ attempts' = Append(attempts, "PAN")
           /\ public_values' =
                 IF r.ok
                 THEN Append(public_values, PANValuesStruct_abi_encode(PANValues(r.val)))
                 ELSE public_values
           /\ pc' = "returned"
    /\ UNCHANGED <<stdin, pdf_bytes, gst_res, fixture>>
    /\ UNCHANGED commit_vars
    /\ UNCHANGED script_vars

\* if let Ok(pan_cert) = verify_pan_certificate(pdf_bytes) { ...; return; }
\* panic!("No valid GST or PAN certificate found in PDF");
TryPan ==
    /\ pc = "try_pan"
    /\ LET r == verify_pan_certificate(pdf_bytes.val)
       IN  /\ pan_res' = Some(r)
           /\ attempts' = Append(attempts, "PAN")
           /\ IF r.ok
              THEN /\ public_values' =
                        Append(public_values, PANValuesStruct_abi_encode(PANValues(r.val)))
                   /\ pc' = "returned"
              ELSE /\ public_values' = public_values
                   /\ pc' = "panicked"
    /\ UNCHANGED <<stdin, pdf_bytes, gst_res, fixture>>
    /\ UNCHANGED commit_vars
    /\ UNCHANGED script_vars

-----------------------------------------------------------------------------
(* script/src/bin/evm.rs *)

RECURSIVE Concat(_)
\* the public values of the proof: the committed slices, one after the other
Concat(slices) ==
    IF Len(slices) = 0 THEN <<>> ELSE slices[1] \o Concat(Tail(slices))

\* format!("0x{}", hex::encode(..))
hex0x(x) == [hex0x |-> x]

\* the fixture create_proof_fixture saves for the public values `bytes`:
\* decoded as GSTValuesStruct first, as PANValuesStruct only if that fails
create_proof_fixture(bytes) ==
    LET gst == GSTValuesStruct_abi_decode(bytes)
        pan == PANValuesStruct_abi_decode(bytes)
    IN  IF gst.ok
        THEN Ok([kind |-> "GST",
                 number |-> gst.val.gst_number,
                 legal_name |-> gst.val.legal_name,
                 signature_valid |-> gst.val.signature_valid,
                 document_commitment |-> hex0x(gst.val.document_commitment),
                 public_key_hash |-> hex0x(gst.val.public_key_hash)])
        ELSE IF pan.ok
        THEN Ok([kind |-> "PAN",
                 number |-> hex0x(keccak256(as_bytes(pan.val.pan_number))),
                 legal_name |-> hex0x(keccak256(as_bytes(pan.val.legal_name))),
                 signature_valid |-> pan.val.signature_valid,
                 document_commitment |-> hex0x(pan.val.document_commitment),
                 public_key_hash |-> hex0x(pan.val.public_key_hash)])
        ELSE Err("Public values could not be decoded as GST or PAN struct!")

\* evm.rs main: the proof of a run that returned is handed to create_proof_fixture
\* (a run that panicked yields no proof: .expect("failed to generate proof"))
CreateProofFixture ==
    /\ pc = "returned"
    /\ ~fixture.some
    /\ fixture' = Some(create_proof_fixture(Concat(public_values)))
    /\ UNCHANGED <<stdin, pc, pdf_bytes, gst_res, pan_res, attempts, public_values>>
    /\ UNCHANGED commit_vars
    /\ UNCHANGED script_vars

-----------------------------------------------------------------------------
(* script/src/bin/main.rs *)

\* The paths given to --pdf-path; the first is the default value.
Paths ==
    {"../samples/PAN-card.pdf", "../samples/GST-certificate.pdf",
     "../samples/unsigned.pdf", "../samples/missing.pdf"}

\* std::fs::read(&args.pdf_path): a PAN card, a GST certificate, a PDF the
\* verifier rejects, and a path with no file.
fs_read(path) ==
    LET sig == CHOOSE g \in Signatures : g.is_valid
    IN  CASE path = "../samples/PAN-card.pdf" ->
               Ok(VerifiedPdf(PagesOf(<<4, 6, 10>>), sig))
          [] path = "../samples/GST-certificate.pdf" ->
               Ok(VerifiedPdf(PagesOf(<<1, 5, 10>>), sig))
          [] path = "../samples/unsigned.pdf" ->
               Ok(RejectedPdf)
          [] OTHER ->
               Err("No such file or directory")

\* The command lines: --execute and --prove given or not, --kind absent or
\* with a value, --pdf-path.
CommandLines ==
    [execute : BOOLEAN,
     prove : BOOLEAN,
     kind : {None} \cup {Some(k) : k \in 0..MaxKindArg},
     pdf_path : Paths]

\* Args::parse(): --kind is required and its value is in 0..=5
Args_parse(cmd) ==
    IF cmd.kind.some /\ cmd.kind.val \in 0..5
    THEN Ok([kind |-> cmd.kind.val, execute |-> cmd.execute,
             prove |-> cmd.prove, pdf_path |-> cmd.pdf_path])
    ELSE Err("usage")

\* The program in ZKPDF_TEMPLATE_ELF run on a stdin: the bytes main commits,
\* or an error when main panics. (The driver's actions bind the outcome of a
\* run once, as the one element of a singleton set.)
ZKPDF_TEMPLATE_ELF(input) ==
    IF verify_gst_certificate(input).ok
    THEN Ok(GSTValuesStruct_abi_encode(GSTValues(verify_gst_certificate(input).val)))
    ELSE IF verify_pan_certificate(input).ok
    THEN Ok(PANValuesStruct_abi_encode(PANValues(verify_pan_certificate(input).val)))
    ELSE Err("No valid GST or PAN certificate found in PDF")

\* client.execute(ZKPDF_TEMPLATE_ELF, &stdin).run()
client_execute(input) == ZKPDF_TEMPLATE_ELF(input)

\* client.prove(&pk, &stdin).run(), pk from client.setup(ZKPDF_TEMPLATE_ELF)
client_prove(input) ==
    IF ZKPDF_TEMPLATE_ELF(input).ok
    THEN Ok([public_values |-> ZKPDF_TEMPLATE_ELF(input).val, vk |-> "vk"])
    ELSE Err("execution failed")

\* client.verify(&proof, &vk)
client_verify(proof, vk) ==
    IF proof.vk = vk THEN Ok("verified") ELSE Err("invalid proof")

\* std::process::exit(code), and the end of a panicking main (status 101)
Exit(code) ==
    /\ exit_code' = Some(code)
    /\ script_pc' = "exited"

\* let args = Args::parse();   (clap ends the process with status 2 on a usage error)
ParseArgs ==
    /\ script_pc = "parse"
    /\ LET parsed == Args_parse(argv)
       IN  IF parsed.ok
           THEN /\ args' = Some(parsed.val)
                /\ script_pc' = "check"
                /\ exit_code' = exit_code
           ELSE /\ args' = args
                /\ Exit(2)
    /\ UNCHANGED <<argv, script_stdin, effects>>
    /\ UNCHANGED pipeline_vars
    /\ UNCHANGED commit_vars

\* if args.execute == args.prove { eprintln!(..); std::process::exit(1); }
CheckMode ==
    /\ script_pc = "check"
    /\ IF args.val.execute = args.val.prove
       THEN Exit(1)
       ELSE /\ script_pc' = "read_pdf"
            /\ exit_code' = exit_code
    /\ UNCHANGED <<argv, args, script_stdin, effects>>
    /\ UNCHANGED pipeline_vars
    /\ UNCHANGED commit_vars

\* let pdf_bytes = std::fs::read(&args.pdf_path).unwrap_or_else(|_| panic!(..));
\* let mut stdin = SP1Stdin::new(); stdin.write(&pdf_bytes);
ReadPdf ==
    /\ script_pc = "read_pdf"
    /\ LET file == fs_read(args.val.pdf_path)
       IN  IF file.ok
           THEN /\ script_stdin' = Some(file.val)
                /\ script_pc' = "gst_block"
                /\ exit_code' = exit_code
           ELSE /\ script_stdin' = script_stdin
                /\ Exit(101)
    /\ UNCHANGED <<argv, args, effects>>
    /\ UNCHANGED pipeline_vars
    /\ UNCHANGED commit_vars

\* the then-branch of `if args.execute && args.kind == 0`: execute, unwrap,
\* decode as GSTValuesStruct, unwrap, print
ExecuteGst ==
    /\ script_pc = "gst_block"
    /\ args.val.execute /\ args.val.kind = 0
    /\ \E run \in {client_execute(script_stdin.val)} :
           IF run.ok /\ GSTValuesStruct_abi_decode(run.val).ok
           THEN /\ effects' = Append(effects, "execute")
                /\ script_pc' = "pan_block"
                /\ exit_code' = exit_code
           ELSE /\ effects' = effects
                /\ Exit(101)
    /\ UNCHANGED <<argv, args, script_stdin>>
    /\ UNCHANGED pipeline_vars
    /\ UNCHANGED commit_vars

\* setup, prove (.expect), verify (.expect): the else-branch of either block;
\* the effects it leaves, or None when an expect panics
ProveAndVerify(input) ==
    IF ~client_prove(input).ok THEN None
    ELSE IF ~client_verify(client_prove(input).val, "vk").ok THEN Some(<<"prove">>)
    ELSE Some(<<"prove", "verify">>)

\* the else-branch of `if args.execute && args.kind == 0`
ProveFirst ==
    /\ script_pc = "gst_block"
    /\ ~(args.val.execute /\ args.val.kind = 0)
    /\ \E done \in {ProveAndVerify(script_stdin.val)} :
           IF done.some /\ Len(done.val) = 2
           THEN /\ effects' = effects \o done.val
                /\ script_pc' = "pan_block"
                /\ exit_code' = exit_code
           ELSE /\ effects' = (IF done.some THEN effects \o done.val ELSE effects)
                /\ Exit(101)
    /\ UNCHANGED <<argv, args, script_stdin>>
    /\ UNCHANGED pipeline_vars
    /\ UNCHANGED commit_vars

\* the then-branch of `if args.execute && args.kind == 1`: execute, unwrap,
\* decode as PANValuesStruct, unwrap, print; then main ends
ExecutePan ==
    /\ script_pc = "pan_block"
    /\ args.val.execute /\ args.val.kind = 1
    /\ \E run \in {client_execute(script_stdin.val)} :
           IF run.ok /\ PANValuesStruct_abi_decode(run.val).ok
           THEN /\ effects' = Append(effects, "execute")
                /\ Exit(0)
           ELSE /\ effects' = effects
                /\ Exit(101)
    /\ UNCHANGED <<argv, args, script_stdin>>
    /\ UNCHANGED pipeline_vars
    /\ UNCHANGED commit_vars

\* the else-branch of `if args.execute && args.kind == 1`; then main ends
ProveSecond ==
    /\ script_pc = "pan_block"
    /\ ~(args.val.execute /\ args.val.kind = 1)
    /\ \E done \in {ProveAndVerify(script_stdin.val)} :
           IF done.some /\ Len(done.val) = 2
           THEN /\ effects' = effects \o done.val
                /\ Exit(0)
           ELSE /\ effects' = (IF done.some THEN effects \o done.val ELSE effects)
                /\ Exit(101)
    /\ UNCHANGED <<argv, args, script_stdin>>
    /\ UNCHANGED pipeline_vars
    /\ UNCHANGED commit_vars

\* The driver script is not running.
ScriptIdle ==
    /\ argv = [execute |-> FALSE, prove |-> FALSE, kind |-> None,
               pdf_path |-> "../samples/PAN-card.pdf"]
    /\ args = None
    /\ script_pc = "idle"
    /\ script_stdin = None
    /\ effects = <<>>
    /\ exit_code = None

\* One invocation of the driver script, on any command line.
InitScript ==
    /\ argv \in CommandLines
    /\ args = None
    /\ script_pc = "parse"
    /\ script_stdin = None
    /\ effects = <<>>
    /\ exit_code = None
    /\ stdin = RejectedPdf
    /\ pc = "idle"
    /\ pdf_bytes = None
    /\ gst_res = None
    /\ pan_res = None
    /\ attempts = <<>>
    /\ public_values = <<>>
    /\ fixture = None
    /\ cert_a = None
    /\ cert_b = None
    /\ commitments = None

NextScript ==
    \/ ParseArgs
    \/ CheckMode
    \/ ReadPdf
    \/ ExecuteGst
    \/ ProveFirst
    \/ ExecutePan
    \/ ProveSecond

SpecScript == InitScript /\ [][NextScript]_vars

-----------------------------------------------------------------------------
(* The pipeline's specification. *)

Init ==
    /\ \/ \E toks \in TokenSeqs, sig \in Signatures :
             stdin = VerifiedPdf(PagesOf(toks), sig)
       \/ stdin = RejectedPdf
    /\ pc = "read"
    /\ pdf_bytes = None
    /\ gst_res = None
    /\ pan_res = None
    /\ attempts = <<>>
    /\ public_values = <<>>
    /\ fixture = None
    /\ cert_a = None
    /\ cert_b = None
    /\ commitments = None
    /\ ScriptIdle

Next ==
    \/ ReadInput
    \/ TryGst
    \/ TryPan
    \/ CreateProofFixture

Spec == Init /\ [][Next]_vars

-----------------------------------------------------------------------------
(* The commitment builder on its own: gst_generate_commitment and          *)
(* pan_generate_commitment are public functions of public structs, applied *)
(* here to two certificates with arbitrary field values.                   *)

Seqs(S, n) == UNION {[1..k -> S] : k \in 0..n}

\* Field values of at most MaxBytes bytes in all: strings over "A", "B" and
\* byte strings over their codes 65, 66.
CommitInputs ==
    {t \in [identifier : Seqs({"A", "B"}, MaxBytes),
            legal_name : Seqs({"A", "B"}, MaxBytes),
            message_digest : Seqs({65, 66}, MaxBytes),
            public_key : Seqs({65, 66}, MaxBytes)] :
        Len(t.identifier) + Len(t.legal_name)
          + Len(t.message_digest) + Len(t.public_key) <= MaxBytes}

\* struct GSTCertificate { gst_number, legal_name, signature }
GSTCertificate(t) ==
    [gst_number |-> t.identifier,
     legal_name |-> t.legal_name,
     signature |-> [is_valid |-> TRUE,
                    message_digest |-> t.message_digest,
                    public_key |-> t.public_key]]

\* struct PANCertificate { pan_number, legal_name, signature }
PANCertificate(t) ==
    [pan_number |-> t.identifier,
     legal_name |-> t.legal_name,
     signature |-> [is_valid |-> TRUE,
                    message_digest |-> t.message_digest,
                    public_key |-> t.public_key]]

CommitGst ==
    /\ pc = "commit"
    /\ ~commitments.some
    /\ commitments' =
          Some([kind |-> "GST",
                a |-> gst_generate_commitment(GSTCertificate(cert_a)),
                b |-> gst_generate_commitment(GSTCertificate(cert_b))])
    /\ UNCHANGED <<cert_a, cert_b>>
    /\ UNCHANGED pipeline_vars
    /\ UNCHANGED script_vars

CommitPan ==
    /\ pc = "commit"
    /\ ~commitments.some
    /\ commitments' =
          Some([kind |-> "PAN",
                a |-> pan_generate_commitment(PANCertificate(cert_a)),
                b |-> pan_generate_commitment(PANCertificate(cert_b))])
    /\ UNCHANGED <<cert_a, cert_b>>
    /\ UNCHANGED pipeline_vars
    /\ UNCHANGED script_vars

InitCommit ==
    /\ cert_a \in CommitInputs
    /\ cert_b \in CommitInputs
    /\ commitments = None
    /\ stdin = RejectedPdf
    /\ pc = "commit"
    /\ pdf_bytes = None
    /\ gst_res = None
    /\ pan_res = None
    /\ attempts = <<>>
    /\ public_values = <<>>
    /\ fixture = None
    /\ ScriptIdle

NextCommit ==
    \/ CommitGst
    \/ CommitPan

SpecCommit == InitCommit /\ [][NextCommit]_vars

-----------------------------------------------------------------------------
(* Vocabulary of the properties. *)

Finished == pc \in {"returned", "panicked"}

\* The field values of the one record the run emitted, by position:
\* <<identifier, legal_name, signature_valid, document_commitment, public_key_hash>>
EmittedRecord == abi_decode(public_values[1]).val

RecordEmitted == Len(public_values) >= 1

\* The kind the classifier assigned: the extraction that succeeded.
AssignedKind == attempts[Len(attempts)]

\* What each extraction yields on the input document.
GstOutcome == verify_gst_certificate(stdin)

PanOutcome == verify_pan_certificate(stdin)

-----------------------------------------------------------------------------
(* C1: whenever both the GST extraction and the PAN extraction succeed on  *)
(* the document, the run returns with exactly one record, which holds the  *)
(* GST number and the GST legal name; PAN extraction is not even tried.    *)
C1_GstPriority ==
    Finished =>
        LET gst == GstOutcome
            pan == PanOutcome
        IN  (gst.ok /\ pan.ok) =>
                /\ pc = "returned"
                /\ Len(public_values) = 1
                /\ abi_decode(public_values[1]).ok
                /\ EmittedRecord[1] = gst.val.gst_number
                /\ EmittedRecord[2] = gst.val.legal_name
                /\ attempts = <<"GST">>
                /\ ~pan_res.some

\* Both extractions succeed, with different names, and the GST record is out.
C1_Witness ==
    /\ Finished
    /\ GstOutcome.ok
    /\ PanOutcome.ok
    /\ GstOutcome.val.legal_name # PanOutcome.val.legal_name
    /\ RecordEmitted
    /\ EmittedRecord[2] = GstOutcome.val.legal_name

(* C2 as stated: when neither extraction succeeds the run ends without a   *)
(* panic (the failure is a returned value) and emits nothing.              *)
C2_ReturnsTypedFailure ==
    (Finished /\ ~GstOutcome.ok /\ ~PanOutcome.ok) =>
        /\ pc # "panicked"
        /\ public_values = <<>>

(* C2, amended: when neither extraction succeeds (an empty page sequence   *)
(* and a rejected PDF included) the run panics after trying both kinds,    *)
(* nothing is committed and no fixture is made; the run panics in no       *)
(* other case.                                                             *)
C2_NeitherPanics ==
    Finished =>
        LET neither == ~GstOutcome.ok /\ ~PanOutcome.ok
        IN  /\ neither =>
                  /\ pc = "panicked"
                  /\ public_values = <<>>
                  /\ ~fixture.some
                  /\ attempts = <<"GST", "PAN">>
            /\ pc = "panicked" => neither

\* The run on a verified document with no page has panicked.
C2_Witness ==
    /\ pc = "panicked"
    /\ stdin.verified
    /\ stdin.pages = <<>>
    /\ public_values = <<>>

(* C3: in every emitted record, of either kind, signature_valid is the     *)
(* verifier's validity flag for the document, false included; and a false  *)
(* flag never costs the record: a run on a document with an invalid        *)
(* signature panics only if neither extraction succeeds on it.             *)
C3_SignatureValidVerbatim ==
    /\ RecordEmitted =>
          /\ stdin.verified
          /\ EmittedRecord[3] = stdin.signature.is_valid
    /\ (pc = "panicked" /\ stdin.verified /\ ~stdin.signature.is_valid) =>
          (~GstOutcome.ok /\ ~PanOutcome.ok)

\* A GST record is out for a document whose signature the verifier found invalid.
C3_Witness ==
    /\ RecordEmitted
    /\ AssignedKind = "GST"
    /\ ~stdin.signature.is_valid
    /\ EmittedRecord[3] = FALSE

(* C4: in every emitted record, document_commitment is the hash of         *)
(* message_digest, the record's identifier bytes, the record's legal-name  *)
(* bytes and public_key, concatenated in that order with nothing between,  *)
(* and public_key_hash is the same hash of the key bytes alone.            *)
C4_CommitmentLayout ==
    RecordEmitted =>
        LET sig == stdin.signature
            identifier == EmittedRecord[1]
            legal_name == EmittedRecord[2]
            idb == [i \in 1..Len(identifier) |-> Ord(identifier[i])]
            nmb == [i \in 1..Len(legal_name) |-> Ord(legal_name[i])]
        IN  /\ EmittedRecord[4] =
                  [keccak256 |-> sig.message_digest \o idb \o nmb \o sig.public_key]
            /\ EmittedRecord[5] = [keccak256 |-> sig.public_key]

\* A PAN record with a non-empty name is out.
C4_Witness ==
    /\ RecordEmitted
    /\ AssignedKind = "PAN"
    /\ Len(EmittedRecord[2]) > 0
    /\ Len(stdin.signature.message_digest) > 0
    /\ Len(stdin.signature.public_key) > 0

-----------------------------------------------------------------------------
(* The identifier grammars, character by character. *)

IsLetter(c) == c \in Upper

IsDigit(c) == c \in Digit

\* 2 digits, 5 letters, 4 digits, 1 letter, 1 alphanumeric, 'Z', 1 alphanumeric
IsGstForm(s) ==
    /\ Len(s) = 15
    /\ \A k \in {1, 2, 8, 9, 10, 11} : IsDigit(s[k])
    /\ \A k \in {3, 4, 5, 6, 7, 12} : IsLetter(s[k])
    /\ IsDigit(s[13]) \/ IsLetter(s[13])
    /\ s[14] = "Z"
    /\ IsDigit(s[15]) \/ IsLetter(s[15])

\* the same, the 13th character other than '0'
IsGstFormNonZero(s) == IsGstForm(s) /\ s[13] # "0"

\* 5 letters, 4 digits, 1 letter
IsPanForm(s) ==
    /\ Len(s) = 10
    /\ \A k \in 1..5 : IsLetter(s[k])
    /\ \A k \in 6..9 : IsDigit(s[k])
    /\ IsLetter(s[10])

RECURSIVE SpacedUpTo(_, _)
\* the first n page texts, in order, one space between neighbours
SpacedUpTo(pages, n) ==
    IF n = 0 THEN <<>>
    ELSE IF n = 1 THEN pages[1]
    ELSE SpacedUpTo(pages, n - 1) \o <<" ">> \o pages[n]

\* the text of the input document
DocText == SpacedUpTo(stdin.pages, Len(stdin.pages))

\* where a word occurs in a text
Occurrences(t, word) ==
    {i \in 1..Len(t) : i + Len(word) - 1 <= Len(t)
                       /\ SubSeq(t, i, i + Len(word) - 1) = word}

GstStartsNonZero ==
    LET text == DocText
    IN  {i \in 1..(Len(text) - 14) : IsGstFormNonZero(SubSeq(text, i, i + 14))}

GstStartsAny ==
    LET text == DocText
    IN  {i \in 1..(Len(text) - 14) : IsGstForm(SubSeq(text, i, i + 14))}

-----------------------------------------------------------------------------
(* C5 as stated: every emitted record holds an identifier of the winning   *)
(* kind's grammar and a legal name that is not empty (an extraction whose  *)
(* captured name trims to nothing fails instead).                          *)
C5_NoPartialRecords ==
    RecordEmitted =>
        /\ AssignedKind = "GST" => IsGstForm(EmittedRecord[1])
        /\ AssignedKind = "PAN" => IsPanForm(EmittedRecord[1])
        /\ EmittedRecord[2] # <<>>

(* C6 as stated: a document with a GST identifier and no "Legal Name"      *)
(* label fails GST extraction with LegalNameNotFound, PAN extraction is    *)
(* then tried on the same document, and the run ends with a complete PAN   *)
(* record (PAN-grammar identifier, non-empty name) or with no record,      *)
(* never with a record whose identifier is a GST identifier.               *)
C6_FallsThroughToPan ==
    (/\ Finished
     /\ stdin.verified
     /\ GstStartsNonZero # {}
     /\ Occurrences(DocText, LegalNameLabel) = {}) =>
        /\ ~gst_res.val.ok
        /\ gst_res.val.err = "LegalNameNotFound"
        /\ attempts = <<"GST", "PAN">>
        /\ pdf_bytes.val = stdin
        /\ \/ public_values = <<>>
           \/ /\ Len(public_values) = 1
              /\ IsPanForm(EmittedRecord[1])
              /\ EmittedRecord[2] # <<>>

(* C7 as stated: GST identifier extraction returns the leftmost substring  *)
(* of the document text of the 15-character form (13th character any       *)
(* alphanumeric) and reports the identifier missing exactly when the text  *)
(* has no such substring.                                                  *)
C7_FirstGstFormAny ==
    (gst_res.some /\ stdin.verified) =>
        LET r == gst_res.val
        IN  /\ (GstStartsAny = {}) <=> (~r.ok /\ r.err = "GSTNumberNotFound")
            /\ r.ok => r.val.gst_number =
                          SubSeq(DocText, SetMin(GstStartsAny), SetMin(GstStartsAny) + 14)

(* C7, amended: the same with the 13th character a letter or a digit       *)
(* other than '0'. The text is the page texts in order with one space      *)
(* between pages; when the identifier is found, the only other failure is  *)
(* the missing legal name.                                                 *)
C7_FirstGstFormNonZero ==
    (gst_res.some /\ stdin.verified) =>
        LET r == gst_res.val
            text == DocText
            starts == GstStartsNonZero
        IN  /\ (starts = {}) <=> (~r.ok /\ r.err = "GSTNumberNotFound")
            /\ r.ok => r.val.gst_number =
                          SubSeq(text, SetMin(starts), SetMin(starts) + 14)
            /\ (~r.ok /\ starts # {}) => r.err = "LegalNameNotFound"

\* The identifier found stands after a 15-character string with '0' as its
\* 13th character, which the extraction passed over.
C7_Witness ==
    /\ gst_res.some
    /\ stdin.verified
    /\ gst_res.val.ok
    /\ SetMin(GstStartsAny) < SetMin(GstStartsNonZero)
    /\ gst_res.val.val.gst_number =
          SubSeq(DocText, SetMin(GstStartsNonZero), SetMin(GstStartsNonZero) + 14)

(* C8 as stated: the consumer of the public values recovers the kind the   *)
(* classifier assigned: a PAN run's record is not taken for a GST record.  *)
C8_KindRecoverable ==
    (fixture.some /\ fixture.val.ok) => fixture.val.val.kind = AssignedKind

\* the shape of a legal name: trimmed, name characters only, no stop keyword
NameShape(name, stops) ==
    /\ name # <<>> => (name[1] \notin Whitespace /\ name[Len(name)] \notin Whitespace)
    /\ \A i \in 1..Len(name) : name[i] \in Upper \cup Lower \cup {" ", "&", ".", ","}
    /\ \A k \in 1..Len(stops) : Occurrences(name, stops[k]) = {}

(* C10 as stated: a successfully extracted legal name has no leading or    *)
(* trailing whitespace, holds only letters, spaces, '&', '.', ',', and     *)
(* holds neither a line break nor a stop keyword of its kind; without the  *)
(* label the extraction does not succeed.                                  *)
C10_LegalNameShape ==
    /\ (gst_res.some /\ gst_res.val.ok) =>
          /\ NameShape(gst_res.val.val.legal_name, GstStops)
          /\ Occurrences(DocText, LegalNameLabel) # {}
    /\ (pan_res.some /\ pan_res.val.ok) =>
          /\ NameShape(pan_res.val.val.legal_name, PanStops)
          /\ Occurrences(DocText, NameLabel) # {}
    /\ (gst_res.some /\ stdin.verified /\ GstStartsNonZero # {}
          /\ Occurrences(DocText, LegalNameLabel) = {}) =>
          (~gst_res.val.ok /\ gst_res.val.err = "LegalNameNotFound")

-----------------------------------------------------------------------------
(* The commitment as a function of its four inputs. *)

\* message_digest, identifier bytes, legal-name bytes, public_key, end to end
Flat(t) ==
    t.message_digest
    \o [i \in 1..Len(t.identifier) |-> Ord(t.identifier[i])]
    \o [i \in 1..Len(t.legal_name) |-> Ord(t.legal_name[i])]
    \o t.public_key

SameLengths(t, u) ==
    /\ Len(t.identifier) = Len(u.identifier)
    /\ Len(t.legal_name) = Len(u.legal_name)
    /\ Len(t.message_digest) = Len(u.message_digest)
    /\ Len(t.public_key) = Len(u.public_key)

(* C9 as stated: with the hash injective, two input tuples get the same    *)
(* commitment only if they are equal component by component, and equal     *)
(* tuples get equal commitments.                                           *)
C9_BindsEachInput ==
    commitments.some =>
        (commitments.val.a = commitments.val.b <=> cert_a = cert_b)

(* C9, amended: with the hash injective, two input tuples get the same     *)
(* commitment exactly when their concatenations message_digest,            *)
(* identifier, legal_name, public_key are the same byte string. So equal   *)
(* tuples get equal commitments, and tuples whose components have the same *)
(* lengths get the same commitment only if they are equal (a changed byte  *)
(* changes the commitment); tuples that differ in where one field ends and *)
(* the next begins are not told apart.                                     *)
C9_BindsConcatenation ==
    commitments.some =>
        /\ commitments.val.a = commitments.val.b <=> Flat(cert_a) = Flat(cert_b)
        /\ cert_a = cert_b => commitments.val.a = commitments.val.b
        /\ (SameLengths(cert_a, cert_b) /\ cert_a # cert_b) =>
              commitments.val.a # commitments.val.b

\* Two tuples that differ in one byte of the public key alone are told apart.
C9_Witness ==
    /\ commitments.some
    /\ commitments.val.kind = "GST"
    /\ SameLengths(cert_a, cert_b)
    /\ cert_a.public_key # cert_b.public_key
    /\ [cert_a EXCEPT !.public_key = <<>>] = [cert_b EXCEPT !.public_key = <<>>]
    /\ commitments.val.a # commitments.val.b

-----------------------------------------------------------------------------
(* C11: in every run the GST extraction is attempted before the PAN        *)
(* extraction; once the GST extraction has succeeded the PAN extraction is *)
(* never attempted; and at most one record is committed: exactly one when  *)
(* an attempted extraction succeeded (the run returns), none otherwise.    *)
C11_EarlyExitSingleOutput ==
    /\ attempts \in {<<>>, <<"GST">>, <<"GST", "PAN">>}
    /\ pan_res.some => (gst_res.some /\ ~gst_res.val.ok)
    /\ (gst_res.some /\ gst_res.val.ok) =>
          /\ attempts = <<"GST">>
          /\ ~pan_res.some
          /\ pc = "returned"
    /\ Len(public_values) <= 1
    /\ Len(public_values) = 1 <=>
          \/ gst_res.some /\ gst_res.val.ok
          \/ pan_res.some /\ pan_res.val.ok
    /\ pc = "returned" <=> Len(public_values) = 1
    /\ pc = "panicked" => (attempts = <<"GST", "PAN">> /\ public_values = <<>>)

\* The run returned after the GST extraction alone and its one record has
\* reached the consumer, on a document where the PAN extraction would have
\* found another identifier.
C11_Witness ==
    /\ pc = "returned"
    /\ fixture.some
    /\ attempts = <<"GST">>
    /\ ~pan_res.some
    /\ Len(public_values) = 1
    /\ PanOutcome.ok
    /\ PanOutcome.val.pan_number # gst_res.val.val.gst_number

-----------------------------------------------------------------------------
(* The driver script's modes. *)

\* how often the driver's client has done `what`
Count(what) == Cardinality({i \in 1..Len(effects) : effects[i] = what})

\* the driver's main has ended normally
ScriptDone == exit_code = Some(0)

(* C12 as stated: the driver performs exactly one mode per invocation. On  *)
(* a parsed command line with --execute and --prove both given or both     *)
(* absent it exits with status 1 before any execution or proving; with     *)
(* --execute alone it never generates a proof and a run that ends normally *)
(* has executed the program once; with --prove alone it never executes and *)
(* a run that ends normally has generated and verified exactly one proof.  *)
C12_OneModePerInvocation ==
    args.some =>
        /\ (argv.execute = argv.prove /\ script_pc # "check") =>
              /\ exit_code = Some(1)
              /\ effects = <<>>
        /\ (argv.execute /\ ~argv.prove) =>
              /\ Count("prove") = 0
              /\ ScriptDone => effects = <<"execute">>
        /\ (argv.prove /\ ~argv.execute) =>
              /\ Count("execute") = 0
              /\ Count("prove") <= 1
              /\ ScriptDone => effects = <<"prove", "verify">>

-----------------------------------------------------------------------------
(* C13: a string of the GST identifier pattern holds, as its characters 3  *)
(* to 12, a string of the PAN identifier pattern; so on every text where   *)
(* the GST identifier extraction succeeds the PAN identifier extraction    *)
(* succeeds too, and a run whose GST extraction fails for the legal name   *)
(* alone ends as a PAN classification whenever the PAN name pattern        *)
(* matches the text: one PAN record, holding the leftmost PAN-pattern      *)
(* string of the text (which may be a part of the GST identifier).         *)
C13_GstIdentifierHoldsPan ==
    (gst_res.some /\ stdin.verified) =>
        LET r == gst_res.val
            text == DocText
            name_only == ~r.ok /\ r.err = "LegalNameNotFound"
            gst_number == gst_number_of(text)
            pan_number == pan_number_of(text)
        IN  /\ (r.ok \/ name_only) =>
                  /\ gst_number.some
                  /\ IsPanForm(SubSeq(gst_number.val, 3, 12))
                  /\ pan_number.some
            /\ (name_only /\ pan_res.some /\ ~pan_res.val.ok) =>
                  pan_res.val.err = "LegalNameNotFound"
            /\ (name_only /\ Finished /\ pan_legal_name_of(text).some) =>
                  /\ pc = "returned"
                  /\ attempts = <<"GST", "PAN">>
                  /\ Len(public_values) = 1
                  /\ IsPanForm(EmittedRecord[1])
                  /\ EmittedRecord[1] = pan_number.val

\* A run classified as PAN whose pan_number is characters 3 to 12 of the GST
\* identifier of the document, with a name that is not empty.
C13_Witness ==
    /\ pc = "returned"
    /\ stdin.verified
    /\ gst_res.some
    /\ ~gst_res.val.ok
    /\ gst_res.val.err = "LegalNameNotFound"
    /\ AssignedKind = "PAN"
    /\ RecordEmitted
    /\ EmittedRecord[1] = SubSeq(gst_number_of(DocText).val, 3, 12)
    /\ EmittedRecord[2] # <<>>

====
